---- MODULE Spec2Model ----
(***************************************************************************)
(* Detection-to-actuation pipeline of sortacle, in its three variants:     *)
(*   web      - src/inference/web_viewer.py        (SortacleWebViewer)     *)
(*   ui       - src/inference/detector_ui_pro.py   (SortacleUIPro)         *)
(*   headless - src/inference/detector_headless.py (SortacleHeadless)      *)
(* One behaviour runs one variant, chosen in Init.  Time is in whole       *)
(* seconds (time.time() truncated); the wait loop of the ui variant counts *)
(* in tenths of a second.                                                  *)
(***************************************************************************)
EXTENDS Integers, Sequences, FiniteSets, TLC

(* ------------------------------ bounds -------------------------------- *)
MaxFrames == 3
MaxTime == 8
MaxTimeUI == 3
MaxDets == 1
MaxFilterLen == 3
StartTime == 13

(* ------------------------- program constants -------------------------- *)
QueueMaxsize == 2
cooldown_seconds == 8
WebCenterAngle == 90
WebRecycleAngle == 180
WebTrashAngle == 0
WebSettleSeconds == 3
UICenterAngle == 90
UIRecycleTarget == 0
UITrashTarget == 180
UIOpenSettleSeconds == 2
max_wait_time == 50
check_interval == 3
required_clear_checks == 2
UIBucketSeconds == 5
UIMaxLoggedItems == 10
UIFailSleepSeconds == 1
HLHomeAngle == 180
HLRecycleAngle == 180
HLTrashAngle == 90
FrameSkip == 3
RecentLimitMax == 500

Variants == {"web", "ui", "headless"}
Labels == {"Bottle", "cup"}
Confs == {40, 90}
Thresholds == {50}
InfTimes == {15}
Failures == {"Timeout", "ConnectionError", "HTTPError"}
NoFrame == 0
NoAngle == -1

(* ------------------------------ helpers ------------------------------- *)
Min(a, b) == IF a < b THEN a ELSE b

\* the labels of the model that are not in lower case, with their lower case
LoweredLabels ==
    "Bottle" :> "bottle" @@ "CAN" :> "can" @@ "Soda Can" :> "soda can" @@
    "Glass Bottle" :> "glass bottle" @@ "Paper Cup" :> "paper cup" @@
    "Coffee" :> "coffee" @@ "Shoe" :> "shoe"

\* str.lower() on the labels of the model
Lower(l) == IF l \in DOMAIN LoweredLabels THEN LoweredLabels[l] ELSE l

\* RECYCLABILITY_TABLE.get(label.lower(), False)
is_recyclable(l) == Lower(l) \in {"can", "bottle", "cardboard box", "cardboard", "paper"}

\* the words _categorize_material looks for that occur in a (lower-case) label
\* of the model; a label that is not listed contains none of them
WordsInLabel ==
    "bottle" :> {"bottle"} @@ "cup" :> {"cup"} @@ "can" :> {"can"} @@
    "soda can" :> {"soda", "can"} @@ "glass bottle" :> {"glass", "bottle"} @@
    "plastic bag" :> {"plastic", "bag"} @@ "paper cup" :> {"paper", "cup"} @@
    "newspaper" :> {"paper", "newspaper"} @@ "coffee" :> {"coffee"} @@
    "styrofoam" :> {"styrofoam"} @@ "food package" :> {"food"} @@
    "candy" :> {"can"}

\* word in label_lower
Contains(label_lower, word) ==
    label_lower \in DOMAIN WordsInLabel /\ word \in WordsInLabel[label_lower]

\* any(word in label_lower for word in words)
ContainsAny(label_lower, words) == \E w \in words : Contains(label_lower, w)

\* the tests of _categorize_material on label_lower, in their order
CategoryOf(label) ==
    IF ContainsAny(label, {"aluminum", "metal", "can", "soda", "beer"})
    THEN IF ContainsAny(label, {"aluminum", "soda", "beer"})
         THEN "metal_aluminum" ELSE "metal"
    ELSE IF ContainsAny(label, {"plastic", "bottle", "water bottle", "container"})
    THEN IF Contains(label, "bottle") THEN "plastic_bottle"
         ELSE IF Contains(label, "bag") THEN "plastic_bag"
         ELSE IF Contains(label, "cup") THEN "plastic_cup"
         ELSE "plastic"
    ELSE IF Contains(label, "glass")
    THEN IF Contains(label, "bottle") THEN "glass_bottle"
         ELSE IF Contains(label, "jar") THEN "glass_jar"
         ELSE "glass"
    ELSE IF ContainsAny(label, {"cardboard", "paper", "newspaper"})
    THEN IF Contains(label, "cardboard") THEN "cardboard"
         ELSE IF Contains(label, "newspaper") THEN "paper_newspaper"
         ELSE IF Contains(label, "cup") THEN "paper_cup"
         ELSE "paper"
    ELSE IF Contains(label, "cup") \/ Contains(label, "coffee") THEN "cup_mixed"
    ELSE IF Contains(label, "styrofoam") THEN "styrofoam"
    ELSE IF Contains(label, "food") THEN "food_waste"
    ELSE "other"

\* variant of _categorize_material that tests the label as it is spelled
categorize_material_AsSpelled(label) == CategoryOf(label)

\* DataLogger._categorize_material: label_lower = label.lower(), then the tests
categorize_material(label) == CategoryOf(Lower(label))

Detection == [label : Labels, confidence : Confs]

SeqsUpTo(S, n) == UNION {[1..k -> S] : k \in 0..n}

\* what the classification service may answer
Results == SeqsUpTo(Detection, MaxDets)

\* a service that finds at most one thing per frame
SingleAnswers == SeqsUpTo(Detection, 1)

\* labels a classification service may answer with: in the recyclability
\* table or not, with a word of the categoriser or not, in any spelling
LookupLabels ==
    {"Bottle", "cup", "CAN", "Soda Can", "Glass Bottle", "plastic bag",
     "Paper Cup", "newspaper", "Coffee", "styrofoam", "food package",
     "banana", "Shoe", "candy"}

\* a service that finds one thing, with any of these labels
LookupAnswers == {<<[label |-> l, confidence |-> 90]>> : l \in LookupLabels}

\* a service that finds nothing or one bottle
QueueAnswers == {<<>>, <<[label |-> "Bottle", confidence |-> 90]>>}

\* a service that finds two things, one with confidence 0.9 and one with 0.4,
\* in either order and with any labels
ScenarioAnswers ==
    UNION {{<<[label |-> l, confidence |-> 90], [label |-> m, confidence |-> 40]>>,
            <<[label |-> m, confidence |-> 40], [label |-> l, confidence |-> 90]>>}
           : <<l, m>> \in Labels \X Labels}

\* the services of the runs: "any" answers with any of Results, "single",
\* "queue" and "scenario" with the sets above, "one" always with the same
\* answer
Service(k) == [kind |-> k, answer |-> <<>>]

OneAnswer(D) == [kind |-> "one", answer |-> D]

AnswersOf(svc) ==
    IF svc.kind = "one" THEN {svc.answer}
    ELSE IF svc.kind = "single" THEN SingleAnswers
    ELSE IF svc.kind = "lookup" THEN LookupAnswers
    ELSE IF svc.kind = "queue" THEN QueueAnswers
    ELSE IF svc.kind = "scenario" THEN ScenarioAnswers
    ELSE Results

\* variant of Filter that drops a detection whose confidence equals the threshold
Filter_Strict(dets, t) == SelectSeq(dets, LAMBDA d : d.confidence > t)

\* [d for d in raw if d["confidence"] >= threshold]
Filter(dets, t) == SelectSeq(dets, LAMBDA d : d.confidence >= t)

\* variant of MaxFrom in which an item of equal confidence replaces the maximum
RECURSIVE MaxFrom_LastWins(_, _, _)
MaxFrom_LastWins(dets, i, best) ==
    IF i > Len(dets) THEN best
    ELSE MaxFrom_LastWins(dets, i + 1,
                 IF dets[i].confidence >= dets[best].confidence THEN i ELSE best)

\* the loop of max(): the item at i replaces the maximum so far only when its
\* key is greater
RECURSIVE MaxFrom(_, _, _)
MaxFrom(dets, i, best) ==
    IF i > Len(dets) THEN best
    ELSE MaxFrom(dets, i + 1,
                 IF dets[i].confidence > dets[best].confidence THEN i ELSE best)

\* max(dets, key=lambda x: x['confidence']) on a non-empty list: the position
\* of the item it returns
BestIndex(dets) == MaxFrom(dets, 2, 1)

BestDetection(dets) == dets[BestIndex(dets)]

NoDetection == [label |-> "", confidence |-> 0]

VARIABLES
    variant, enable_servo, enable_logging, confidence_threshold,
    running, paused, exited, now,
    frame_queue, frame_count,
    latest_detections, inference_source, inference_time_ms,
    last_detection_time, last_logged_items,
    servo_angle, events,
    pc, frame, filtered, best_detection, current_time, result_time_ms,
    waited, consecutive_clear_checks,
    cyc_capture, cyc_infer, cyc_guard, cyc_act, cyc_log, cyc_calls, last_admit,
    service, frame_limit, releases, draw_pc, drawn_source, drawn_time_ms,
    api

config == <<variant, enable_servo, enable_logging, confidence_threshold,
            service, frame_limit>>
display == <<draw_pc, drawn_source, drawn_time_ms>>
status == <<latest_detections, inference_source, inference_time_ms>>
locals == <<frame, filtered, best_detection, current_time, result_time_ms,
            waited, consecutive_clear_checks>>
cyc == <<cyc_capture, cyc_infer, cyc_guard, cyc_act, cyc_log, cyc_calls>>

vars == <<variant, enable_servo, enable_logging, confidence_threshold,
          running, paused, exited, now,
          frame_queue, frame_count,
          latest_detections, inference_source, inference_time_ms,
          last_detection_time, last_logged_items,
          servo_angle, events,
          pc, frame, filtered, best_detection, current_time, result_time_ms,
          waited, consecutive_clear_checks,
          cyc_capture, cyc_infer, cyc_guard, cyc_act, cyc_log, cyc_calls, last_admit,
          service, frame_limit, releases, draw_pc, drawn_source, drawn_time_ms,
          api>>

\* all variables of the pipeline process
pipeline == <<config, display, releases, running, paused, exited, now,
              frame_queue, frame_count, status, last_detection_time,
              last_logged_items, servo_angle, events, pc, locals, cyc, last_admit>>

\* the data API server (its own process) between two requests
ApiIdle == [call |-> "none", limit |-> 0, total |-> 0, result |-> <<>>]

\* last clock value of the model; the ui variant only looks at 5-second buckets
Horizon == StartTime + (IF variant = "ui" THEN MaxTimeUI ELSE MaxTime)

\* time.sleep(n): the clock is at least n later (saturating at the horizon)
After(t, n) == Min(t + n, Horizon)

\* angle the constructor leaves the servo at
InitialAngle(v, servo) ==
    IF ~servo THEN NoAngle
    ELSE IF v = "headless" THEN HLHomeAngle
    ELSE IF v = "web" THEN WebCenterAngle ELSE UICenterAngle

\* first program position of the worker of each variant
StartPc(v) == IF v = "web" THEN "get" ELSE IF v = "ui" THEN "head" ELSE "capture"

\* number of capture passes after which the camera delivers nothing more,
\* for a run in which n frames are offered to the worker
FrameLimit(v, n) == IF v = "web" THEN n * FrameSkip ELSE n

\* the state of a pipeline that has logged `rows` and holds the dedup keys
\* `items`, for the service `svc`, a configured threshold out of `thresholds`
\* and a camera that delivers `frames` frames for the worker
InitFrom(svc, thresholds, frames, items, rows) ==
    /\ variant \in Variants
    /\ enable_servo \in BOOLEAN
    /\ enable_logging \in BOOLEAN
    /\ confidence_threshold \in thresholds
    /\ service = svc
    /\ frame_limit = FrameLimit(variant, frames)
    /\ releases = 0
    /\ api = ApiIdle
    /\ draw_pc = "idle"
    /\ drawn_source = "none"
    /\ drawn_time_ms = 0
    /\ running = TRUE
    /\ paused = FALSE
    /\ exited = FALSE
    /\ now = StartTime
    /\ frame_queue = <<>>
    /\ frame_count = 0
    /\ latest_detections = <<>>
    /\ inference_source = "none"
    /\ inference_time_ms = 0
    /\ last_detection_time = 0
    /\ last_logged_items = items
    /\ servo_angle = InitialAngle(variant, enable_servo)
    /\ events = rows
    /\ pc = StartPc(variant)
    /\ frame = NoFrame
    /\ filtered = <<>>
    /\ best_detection = NoDetection
    /\ current_time = 0
    /\ result_time_ms = 0
    /\ waited = 0
    /\ consecutive_clear_checks = 0
    /\ cyc_capture = "none"
    /\ cyc_infer = "none"
    /\ cyc_guard = "none"
    /\ cyc_act = "none"
    /\ cyc_log = "none"
    /\ cyc_calls = 0
    /\ last_admit = 0

\* the state the constructor leaves: nothing logged yet
InitWith(svc, thresholds, frames) == InitFrom(svc, thresholds, frames, {}, <<>>)

Init == InitWith(Service("any"), Thresholds, MaxFrames)

\* the process has ended: its memory is gone; what stays is the position of
\* the servo and the rows of the database
ProcessEnds ==
    /\ exited' = TRUE
    /\ running' = FALSE
    /\ paused' = FALSE
    /\ now' = StartTime
    /\ frame_queue' = <<>>
    /\ frame_count' = 0
    /\ latest_detections' = <<>>
    /\ inference_source' = "none"
    /\ inference_time_ms' = 0
    /\ last_detection_time' = 0
    /\ last_logged_items' = {}
    /\ pc' = "exit"
    /\ frame' = NoFrame
    /\ filtered' = <<>>
    /\ best_detection' = NoDetection
    /\ current_time' = 0
    /\ result_time_ms' = 0
    /\ waited' = 0
    /\ consecutive_clear_checks' = 0
    /\ cyc_capture' = "none"
    /\ cyc_infer' = "none"
    /\ cyc_guard' = "none"
    /\ cyc_act' = "none"
    /\ cyc_log' = "none"
    /\ cyc_calls' = 0
    /\ last_admit' = 0
    /\ draw_pc' = "idle"
    /\ drawn_source' = "none"
    /\ drawn_time_ms' = 0
    /\ UNCHANGED <<config, api, servo_angle, events>>

\* DataLogger.log_disposal: the row it inserts
LoggedEvent(det) == [label |-> det.label, confidence |-> det.confidence,
                      material_category |-> categorize_material(det.label),
                      is_recyclable |-> is_recyclable(det.label)]

\* the loop body is left: its locals are dead and the per-cycle observations
\* are cleared
CycleReset ==
    /\ cyc_capture' = "none"
    /\ cyc_infer' = "none"
    /\ cyc_guard' = "none"
    /\ cyc_act' = "none"
    /\ cyc_log' = "none"
    /\ cyc_calls' = 0
    /\ frame' = NoFrame
    /\ filtered' = <<>>
    /\ best_detection' = NoDetection
    /\ current_time' = 0
    /\ result_time_ms' = 0
    /\ waited' = 0
    /\ consecutive_clear_checks' = 0

\* time passes while the worker is blocked waiting for a frame and in the
\* classification call; the worker reads the clock only after that call
Tick ==
    /\ ~exited
    /\ variant \in {"web", "ui"}
    /\ pc = "infer"
    /\ now < Horizon
    /\ now' = now + 1
    /\ UNCHANGED <<config, display, api, releases, running, paused, exited, frame_queue, frame_count,
                   status, last_detection_time, last_logged_items, servo_angle,
                   events, pc, locals, cyc, last_admit>>

(* ============================ web variant ============================== *)

\* variant of WebGetFrame whose queue was built without maxsize
WebGetFrame_NoMaxsize ==
    /\ variant = "web" /\ ~exited
    /\ frame_count < frame_limit
    /\ \/ UNCHANGED <<frame_queue, frame_count>>
       \/ /\ frame_count' = frame_count + 1
          /\ frame_queue' =
                IF frame_count' % FrameSkip = 0
                THEN Append(frame_queue, frame_count')
                ELSE frame_queue
    /\ UNCHANGED <<config, display, api, releases, running, paused, exited, now, status,
                   last_detection_time, last_logged_items, servo_angle, events,
                   pc, locals, cyc, last_admit>>

\* get_frame: capture, every 3rd frame put_nowait, queue.Full is passed over
WebGetFrame ==
    /\ variant = "web" /\ ~exited
    /\ frame_count < frame_limit
    /\ \/ \* capture_frame() returned None
          UNCHANGED <<frame_queue, frame_count>>
       \/ /\ frame_count' = frame_count + 1
          /\ frame_queue' =
                IF frame_count' % FrameSkip = 0 /\ Len(frame_queue) < QueueMaxsize
                THEN Append(frame_queue, frame_count')
                ELSE frame_queue
    /\ UNCHANGED <<config, display, api, releases, running, paused, exited, now, status,
                   last_detection_time, last_logged_items, servo_angle, events,
                   pc, locals, cyc, last_admit>>

\* _inference_worker: frame = self.frame_queue.get(timeout=1.0)
WebGet ==
    /\ variant = "web" /\ ~exited /\ pc = "get"
    /\ frame_queue # <<>>
    /\ frame' = Head(frame_queue)
    /\ frame_queue' = Tail(frame_queue)
    /\ pc' = "infer"
    /\ UNCHANGED <<config, display, api, releases, running, paused, exited, now, frame_count, status,
                   last_detection_time, last_logged_items, servo_angle, events,
                   filtered, best_detection, current_time, result_time_ms,
                   waited, consecutive_clear_checks, cyc, last_admit>>

\* the worker is back at the top of `while self.running`
WebLoop ==
    /\ variant = "web" /\ ~exited /\ pc = "done"
    /\ pc' = "get"
    /\ CycleReset
    /\ UNCHANGED <<config, display, api, releases, running, paused, exited, now, frame_queue, frame_count,
                   status, last_detection_time, last_logged_items, servo_angle,
                   events, last_admit>>

\* variant of WebInferFail that clears the published detections on an error
WebInferFail_ClearsStatus(kind) ==
    /\ cyc_infer' = kind
    /\ pc' = "done"
    /\ latest_detections' = <<>>
    /\ UNCHANGED <<inference_source, inference_time_ms>>

\* run_cloud_inference raised: except Exception prints and the loop goes on
WebInferFail(kind) ==
    /\ cyc_infer' = kind
    /\ pc' = "done"
    /\ UNCHANGED status

\* run_cloud_inference returned: filter, publish under detection_lock
WebInferOk(res) ==
    /\ cyc_infer' = "ok"
    /\ latest_detections' = Filter(res, confidence_threshold)
    /\ UNCHANGED <<inference_source, inference_time_ms>>
    /\ pc' = IF latest_detections' # <<>> THEN "guard" ELSE "done"

WebInfer ==
    /\ variant = "web" /\ ~exited /\ pc = "infer"
    /\ cyc_calls' = cyc_calls + 1
    /\ \/ \E kind \in Failures : WebInferFail(kind)
       \/ \E res \in AnswersOf(service) : WebInferOk(res)
    /\ UNCHANGED <<config, display, api, releases, running, paused, exited, now, frame_queue, frame_count,
                   last_detection_time, last_logged_items, servo_angle, events,
                   locals, cyc_guard, cyc_act, cyc_log, last_admit, cyc_capture>>

\* the cooldown test of the web worker
WebAdmit(t, last) == ~(t - last < cooldown_seconds)

\* current_time = time.time(); cooldown check; best detection; servo enabled?
WebGuard ==
    /\ variant = "web" /\ ~exited /\ pc = "guard"
    /\ current_time' = now
    /\ IF ~WebAdmit(now, last_detection_time)
       THEN /\ cyc_guard' = "reject"
            /\ pc' = "done"
            /\ UNCHANGED <<best_detection, last_detection_time, last_admit>>
       ELSE /\ cyc_guard' = "admit"
            /\ last_admit' = now
            /\ best_detection' = BestDetection(latest_detections)
            /\ IF enable_servo
               THEN pc' = "open" /\ UNCHANGED last_detection_time
               ELSE pc' = "done" /\ last_detection_time' = now
    /\ UNCHANGED <<config, display, api, releases, running, paused, exited, now, frame_queue, frame_count,
                   status, last_logged_items, servo_angle, events,
                   frame, filtered, result_time_ms, waited, consecutive_clear_checks,
                   cyc_infer, cyc_act, cyc_log, cyc_calls, cyc_capture>>

\* angle the web variant opens to
WebTargetAngle(recyclable) == IF recyclable THEN WebRecycleAngle ELSE WebTrashAngle

\* move_servo_for_item: servo[SERVO_CH].angle = target_angle
WebServoOpen ==
    /\ variant = "web" /\ ~exited /\ pc = "open"
    /\ \/ /\ servo_angle' = WebTargetAngle(is_recyclable(best_detection.label))
          /\ cyc_act' = "started"
          /\ pc' = "wait"
       \/ \* the write raised: except Exception prints, the function returns
          /\ cyc_act' = "failed"
          /\ pc' = "log"
          /\ UNCHANGED servo_angle
    /\ UNCHANGED <<config, display, api, releases, running, paused, exited, now, frame_queue, frame_count,
                   status, last_detection_time, last_logged_items, events,
                   locals, cyc_infer, cyc_guard, cyc_log, cyc_calls, last_admit, cyc_capture>>

\* time.sleep(3.0)
WebServoWait ==
    /\ variant = "web" /\ ~exited /\ pc = "wait"
    /\ now' = After(now, WebSettleSeconds)
    /\ pc' = "close"
    /\ UNCHANGED <<config, display, api, releases, running, paused, exited, frame_queue, frame_count,
                   status, last_detection_time, last_logged_items, servo_angle,
                   events, locals, cyc, last_admit>>

\* servo[SERVO_CH].angle = 90
WebServoClose ==
    /\ variant = "web" /\ ~exited /\ pc = "close"
    /\ \/ /\ servo_angle' = WebCenterAngle
          /\ cyc_act' = "ok"
       \/ /\ cyc_act' = "failed"
          /\ UNCHANGED servo_angle
    /\ pc' = "log"
    /\ UNCHANGED <<config, display, api, releases, running, paused, exited, now, frame_queue, frame_count,
                   status, last_detection_time, last_logged_items, events,
                   locals, cyc_infer, cyc_guard, cyc_log, cyc_calls, last_admit, cyc_capture>>

\* log_disposal after the servo call, then last_detection_time = current_time
WebLog ==
    /\ variant = "web" /\ ~exited /\ pc = "log"
    /\ IF enable_logging
       THEN \/ /\ events' = Append(events, LoggedEvent(best_detection))
               /\ cyc_log' = "ok"
               /\ last_detection_time' = current_time
            \/ \* log_disposal raised: the outer except skips the rest of the cycle
               /\ cyc_log' = "failed"
               /\ UNCHANGED <<events, last_detection_time>>
       ELSE /\ last_detection_time' = current_time
            /\ UNCHANGED <<events, cyc_log>>
    /\ pc' = "done"
    /\ UNCHANGED <<config, display, api, releases, running, paused, exited, now, frame_queue, frame_count,
                   status, last_logged_items, servo_angle,
                   locals, cyc_infer, cyc_guard, cyc_act, cyc_calls, last_admit, cyc_capture>>

\* servo_control(action) from the /servo/<action> endpoint (its own thread)
WebServoControl ==
    /\ variant = "web" /\ ~exited
    /\ enable_servo
    /\ \/ \* action == 'open': alternate between the two bins
          servo_angle' = IF servo_angle \in {WebCenterAngle, WebTrashAngle}
                         THEN WebRecycleAngle ELSE WebTrashAngle
       \/ \* action == 'close'
          servo_angle' = WebCenterAngle
       \/ \* the write raised: return False
          UNCHANGED servo_angle
    /\ UNCHANGED <<config, display, api, releases, running, paused, exited, now, frame_queue, frame_count,
                   status, last_detection_time, last_logged_items, events,
                   pc, locals, cyc, last_admit>>

\* Ctrl+C on app.run(): the process ends, the daemon worker with it; no
\* handler runs and nothing calls camera.release()
WebInterrupt ==
    /\ variant = "web" /\ ~exited
    /\ releases' = releases
    /\ ProcessEnds

WebNext ==
    \/ WebGetFrame
    \/ WebGet
    \/ WebLoop
    \/ WebInfer
    \/ WebGuard
    \/ WebServoOpen
    \/ WebServoWait
    \/ WebServoClose
    \/ WebLog
    \/ WebServoControl
    \/ WebInterrupt


(* ============================= ui variant ============================== *)

\* variant of UICapture that calls the blocking put() without asking full()
UICapture_BlockingPut ==
    /\ variant = "ui" /\ ~exited /\ running
    /\ frame_count < frame_limit
    /\ \/ UNCHANGED <<frame_queue, frame_count>>
       \/ /\ paused \/ Len(frame_queue) < QueueMaxsize
          /\ frame_count' = frame_count + 1
          /\ frame_queue' =
                IF ~paused THEN Append(frame_queue, frame_count') ELSE frame_queue
    /\ UNCHANGED <<config, display, api, releases, running, paused, exited, now, status,
                   last_detection_time, last_logged_items, servo_angle, events,
                   pc, locals, cyc, last_admit>>

\* run(): capture_frame; frame_count += 1; put when not paused and not full
UICapture ==
    /\ variant = "ui" /\ ~exited /\ running
    /\ frame_count < frame_limit
    /\ \/ \* capture_frame() returned None: continue
          UNCHANGED <<frame_queue, frame_count>>
       \/ /\ frame_count' = frame_count + 1
          /\ frame_queue' =
                IF ~paused /\ Len(frame_queue) < QueueMaxsize
                THEN Append(frame_queue, frame_count')
                ELSE frame_queue
    /\ UNCHANGED <<config, display, api, releases, running, paused, exited, now, status,
                   last_detection_time, last_logged_items, servo_angle, events,
                   pc, locals, cyc, last_admit>>

\* the space key, or a click on the pause button
UITogglePause ==
    /\ variant = "ui" /\ ~exited /\ running
    /\ paused' = ~paused
    /\ UNCHANGED <<config, display, api, releases, running, exited, now, frame_queue, frame_count, status,
                   last_detection_time, last_logged_items, servo_angle, events,
                   pc, locals, cyc, last_admit>>

\* 'q' or the window is closed: finally: self.running = False; camera.release()
UIQuit ==
    /\ variant = "ui" /\ ~exited /\ running
    /\ running' = FALSE
    /\ UNCHANGED <<config, display, api, releases, paused, exited, now, frame_queue, frame_count, status,
                   last_detection_time, last_logged_items, servo_angle, events,
                   pc, locals, cyc, last_admit>>

\* run() returns; the daemon inference thread dies with the process
UIExit ==
    /\ variant = "ui" /\ ~exited /\ ~running
    /\ releases' = releases + 1
    /\ ProcessEnds

\* inference_thread: while self.running: if self.paused: sleep; continue
UIHead ==
    /\ variant = "ui" /\ ~exited /\ pc = "head"
    /\ pc' = IF ~running THEN "exit" ELSE IF paused THEN "head" ELSE "drain"
    /\ UNCHANGED <<config, display, api, releases, running, paused, exited, now, frame_queue, frame_count,
                   status, last_detection_time, last_logged_items, servo_angle,
                   events, locals, cyc, last_admit>>

\* while not self.frame_queue.empty(): frame = self.frame_queue.get_nowait()
UIDrain ==
    /\ variant = "ui" /\ ~exited /\ pc = "drain"
    /\ IF frame_queue # <<>>
       THEN /\ frame' = Head(frame_queue)
            /\ frame_queue' = Tail(frame_queue)
            /\ pc' = "drain"
       ELSE /\ pc' = IF frame = NoFrame THEN "head" ELSE "infer"
            /\ UNCHANGED <<frame, frame_queue>>
    /\ UNCHANGED <<config, display, api, releases, running, paused, exited, now, frame_count, status,
                   last_detection_time, last_logged_items, servo_angle, events,
                   filtered, best_detection, current_time, result_time_ms,
                   waited, consecutive_clear_checks, cyc, last_admit>>

\* variant of UIInferFail in which the exception leaves the worker loop
UIInferFail_EndsThread(kind) ==
    /\ cyc_infer' = kind
    /\ now' = After(now, UIFailSleepSeconds)
    /\ pc' = "exit"
    /\ UNCHANGED <<status, filtered, result_time_ms>>

\* run_cloud_inference raised: print, time.sleep(1), continue
UIInferFail(kind) ==
    /\ cyc_infer' = kind
    /\ now' = After(now, UIFailSleepSeconds)
    /\ pc' = "done"
    /\ UNCHANGED <<status, filtered, result_time_ms>>

\* run_cloud_inference returned: filtered = [d ... >= confidence_threshold]
UIInferOk(res, ms) ==
    /\ cyc_infer' = "ok"
    /\ filtered' = Filter(res, confidence_threshold)
    /\ result_time_ms' = ms
    /\ pc' = "dedup"
    /\ UNCHANGED <<status, now>>

UIInfer ==
    /\ variant = "ui" /\ ~exited /\ pc = "infer"
    /\ cyc_calls' = cyc_calls + 1
    /\ \/ \E kind \in Failures : UIInferFail(kind)
       \/ \E res \in AnswersOf(service), ms \in InfTimes : UIInferOk(res, ms)
    /\ UNCHANGED <<config, display, api, releases, running, paused, exited, frame_queue, frame_count,
                   last_detection_time, last_logged_items, servo_angle,
                   events, frame, best_detection, current_time,
                   waited, consecutive_clear_checks, cyc_guard, cyc_act, cyc_log, last_admit, cyc_capture>>

\* item_key = f"{label}_{int(time.time() / 5)}"
ItemKey(label, t) == <<label, t \div UIBucketSeconds>>

\* if enable_logging and logger and len(filtered) > 0: best; item_key not in set?
UIDedup ==
    /\ variant = "ui" /\ ~exited /\ pc = "dedup"
    /\ IF enable_logging /\ Len(filtered) > 0
       THEN /\ best_detection' = BestDetection(filtered)
            /\ current_time' = now
            /\ IF ItemKey(best_detection'.label, now) \notin last_logged_items
               THEN /\ cyc_guard' = "admit"
                    /\ last_admit' = now
                    /\ pc' = "log"
               ELSE /\ cyc_guard' = "reject"
                    /\ pc' = "publish"
                    /\ UNCHANGED last_admit
       ELSE /\ pc' = "publish"
            /\ UNCHANGED <<best_detection, current_time, cyc_guard, last_admit>>
    /\ UNCHANGED <<config, display, api, releases, running, paused, exited, now, frame_queue, frame_count,
                   status, last_detection_time, last_logged_items, servo_angle,
                   events, frame, filtered, result_time_ms,
                   waited, consecutive_clear_checks,
                   cyc_infer, cyc_act, cyc_log, cyc_calls, cyc_capture>>

\* last_logged_items.add(item_key); if len(...) > 10: last_logged_items.pop()
AddLoggedItem(items, key, victim) ==
    IF Cardinality(items \cup {key}) > UIMaxLoggedItems
    THEN (items \cup {key}) \ {victim}
    ELSE items \cup {key}

\* try: log_disposal; logged_count; add key; move_servo_for_item / except
UILog ==
    /\ variant = "ui" /\ ~exited /\ pc = "log"
    /\ \/ /\ events' = Append(events, LoggedEvent(best_detection))
          /\ cyc_log' = "ok"
          /\ \E victim \in last_logged_items \cup {ItemKey(best_detection.label, current_time)} :
                last_logged_items' =
                    AddLoggedItem(last_logged_items,
                                  ItemKey(best_detection.label, current_time), victim)
          /\ pc' = IF enable_servo THEN "reset" ELSE "publish"
       \/ \* log_disposal raised: except Exception prints, the servo call is skipped
          /\ cyc_log' = "failed"
          /\ pc' = "publish"
          /\ UNCHANGED <<events, last_logged_items>>
    /\ UNCHANGED <<config, display, api, releases, running, paused, exited, now, frame_queue, frame_count,
                   status, last_detection_time, servo_angle,
                   locals, cyc_infer, cyc_guard, cyc_act, cyc_calls, last_admit, cyc_capture>>

\* move_servo_for_item step 0: servo.angle = 90; time.sleep(0.5)
UIServoReset ==
    /\ variant = "ui" /\ ~exited /\ pc = "reset"
    /\ \/ /\ servo_angle' = UICenterAngle
          /\ pc' = "open"
          /\ UNCHANGED cyc_act
       \/ /\ cyc_act' = "failed"
          /\ pc' = "emergency"
          /\ UNCHANGED servo_angle
    /\ UNCHANGED <<config, display, api, releases, running, paused, exited, now, frame_queue, frame_count,
                   status, last_detection_time, last_logged_items, events,
                   locals, cyc_infer, cyc_guard, cyc_log, cyc_calls, last_admit, cyc_capture>>

\* target_angle = 0 if recyclable else 180; actual_angle = 180 - target_angle
UIActualAngle(recyclable) ==
    180 - (IF recyclable THEN UIRecycleTarget ELSE UITrashTarget)

\* variant of UIServoOpen that closes right after opening, without the wait
UIServoOpen_NoWait ==
    /\ variant = "ui" /\ ~exited /\ pc = "open"
    /\ \/ /\ servo_angle' = UIActualAngle(is_recyclable(best_detection.label))
          /\ cyc_act' = "started"
          /\ now' = After(now, UIOpenSettleSeconds)
          /\ pc' = "close"
       \/ /\ cyc_act' = "failed"
          /\ pc' = "emergency"
          /\ UNCHANGED <<servo_angle, now>>
    /\ UNCHANGED <<config, display, api, releases, running, paused, exited, frame_queue, frame_count,
                   status, last_detection_time, last_logged_items, events,
                   locals, cyc_infer, cyc_guard, cyc_log, cyc_calls, last_admit, cyc_capture>>

\* step 1: servo.angle = actual_angle; step 2: time.sleep(2.0)
UIServoOpen ==
    /\ variant = "ui" /\ ~exited /\ pc = "open"
    /\ \/ /\ servo_angle' = UIActualAngle(is_recyclable(best_detection.label))
          /\ cyc_act' = "started"
          /\ now' = After(now, UIOpenSettleSeconds)
          /\ pc' = "check"
       \/ /\ cyc_act' = "failed"
          /\ pc' = "emergency"
          /\ UNCHANGED <<servo_angle, now>>
    /\ UNCHANGED <<config, display, api, releases, running, paused, exited, frame_queue, frame_count,
                   status, last_detection_time, last_logged_items, events,
                   locals, cyc_infer, cyc_guard, cyc_log, cyc_calls, last_admit, cyc_capture>>

\* variant of ItemStillVisible that lower-cases only one side of the comparison
ItemStillVisible_OneSidedLower(dets, label) ==
    \E i \in 1..Len(dets) : dets[i].label = Lower(label)

\* any(det['label'].lower() == current_label.lower() for det in current_detections)
ItemStillVisible(dets, label) ==
    \E i \in 1..Len(dets) : Lower(dets[i].label) = Lower(label)

\* variant of UIServoCheck that looks at the detections of the cycle in progress
UIServoCheck_ReadsCurrent ==
    /\ variant = "ui" /\ ~exited /\ pc = "check"
    /\ IF ~(waited < max_wait_time)
       THEN /\ pc' = "close"
            /\ UNCHANGED <<waited, consecutive_clear_checks, now>>
       ELSE /\ waited' = waited + check_interval
            /\ now' = IF waited' \div 10 > waited \div 10 THEN After(now, 1) ELSE now
            /\ IF ~ItemStillVisible(filtered, best_detection.label)
               THEN /\ consecutive_clear_checks' = consecutive_clear_checks + 1
                    /\ pc' = IF consecutive_clear_checks' >= required_clear_checks
                             THEN "close" ELSE "check"
               ELSE /\ consecutive_clear_checks' = 0
                    /\ pc' = "check"
    /\ UNCHANGED <<config, display, api, releases, running, paused, exited, frame_queue, frame_count,
                   status, last_detection_time, last_logged_items, servo_angle,
                   events, frame, filtered, best_detection, current_time,
                   result_time_ms, cyc, last_admit>>

\* step 3: one pass of `while waited < max_wait_time` (tenths of a second)
UIServoCheck ==
    /\ variant = "ui" /\ ~exited /\ pc = "check"
    /\ IF ~(waited < max_wait_time)
       THEN /\ pc' = "close"
            /\ UNCHANGED <<waited, consecutive_clear_checks, now>>
       ELSE /\ waited' = waited + check_interval
            /\ now' = IF waited' \div 10 > waited \div 10 THEN After(now, 1) ELSE now
            /\ IF ~ItemStillVisible(latest_detections, best_detection.label)
               THEN /\ consecutive_clear_checks' = consecutive_clear_checks + 1
                    /\ pc' = IF consecutive_clear_checks' >= required_clear_checks
                             THEN "close" ELSE "check"
               ELSE /\ consecutive_clear_checks' = 0
                    /\ pc' = "check"
    /\ UNCHANGED <<config, display, api, releases, running, paused, exited, frame_queue, frame_count,
                   status, last_detection_time, last_logged_items, servo_angle,
                   events, frame, filtered, best_detection, current_time,
                   result_time_ms, cyc, last_admit>>

\* step 4: servo.angle = 90
UIServoClose ==
    /\ variant = "ui" /\ ~exited /\ pc = "close"
    /\ \/ /\ servo_angle' = UICenterAngle
          /\ cyc_act' = "ok"
          /\ pc' = "publish"
       \/ /\ cyc_act' = "failed"
          /\ pc' = "emergency"
          /\ UNCHANGED servo_angle
    /\ UNCHANGED <<config, display, api, releases, running, paused, exited, now, frame_queue, frame_count,
                   status, last_detection_time, last_logged_items, events,
                   locals, cyc_infer, cyc_guard, cyc_log, cyc_calls, last_admit, cyc_capture>>

\* except Exception: try: servo.angle = 90 / except: pass
UIServoEmergency ==
    /\ variant = "ui" /\ ~exited /\ pc = "emergency"
    /\ \/ servo_angle' = UICenterAngle
       \/ UNCHANGED servo_angle
    /\ pc' = "publish"
    /\ UNCHANGED <<config, display, api, releases, running, paused, exited, now, frame_queue, frame_count,
                   status, last_detection_time, last_logged_items, events,
                   locals, cyc, last_admit>>

\* with self.detection_lock: latest_detections, inference_source, inference_time_ms
UIPublish ==
    /\ variant = "ui" /\ ~exited /\ pc = "publish"
    /\ latest_detections' = filtered
    /\ inference_source' = "cloud"
    /\ inference_time_ms' = result_time_ms
    /\ pc' = "done"
    /\ UNCHANGED <<config, display, api, releases, running, paused, exited, now, frame_queue, frame_count,
                   last_detection_time, last_logged_items, servo_angle, events,
                   locals, cyc, last_admit>>

\* the end of the loop body (time.sleep, back to `while self.running`)
UILoop ==
    /\ variant = "ui" /\ ~exited /\ pc = "done"
    /\ pc' = "head"
    /\ CycleReset
    /\ UNCHANGED <<config, display, api, releases, running, paused, exited, now, frame_queue, frame_count,
                   status, last_detection_time, last_logged_items, servo_angle,
                   events, last_admit>>

\* draw_ui, stats panel: self.inference_source and self.inference_time_ms are
\* read for the text of the panel, outside detection_lock
UIDrawStats ==
    /\ variant = "ui" /\ ~exited /\ running
    /\ draw_pc = "idle"
    /\ drawn_source' = inference_source
    /\ drawn_time_ms' = inference_time_ms
    /\ draw_pc' = "boxes"
    /\ UNCHANGED <<config, api, releases, running, paused, exited, now, frame_queue,
                   frame_count, status, last_detection_time, last_logged_items,
                   servo_angle, events, pc, locals, cyc, last_admit>>

\* draw_ui, boxes: with self.detection_lock: detections = latest_detections.copy();
\* the frame is drawn from the three values and draw_ui returns
UIDrawBoxes ==
    /\ variant = "ui" /\ ~exited
    /\ draw_pc = "boxes"
    /\ draw_pc' = "idle"
    /\ drawn_source' = "none"
    /\ drawn_time_ms' = 0
    /\ UNCHANGED <<config, api, releases, running, paused, exited, now, frame_queue,
                   frame_count, status, last_detection_time, last_logged_items,
                   servo_angle, events, pc, locals, cyc, last_admit>>

UINext ==
    \/ UICapture
    \/ UITogglePause
    \/ UIQuit
    \/ UIExit
    \/ UIHead
    \/ UIDrain
    \/ UIInfer
    \/ UIDedup
    \/ UILog
    \/ UIServoReset
    \/ UIServoOpen
    \/ UIServoCheck
    \/ UIServoClose
    \/ UIServoEmergency
    \/ UIPublish
    \/ UILoop


(* ========================== headless variant =========================== *)

\* variant of HLCapture without the test for None: the empty frame goes on to
\* the classification
HLCapture_NoNoneCheck ==
    /\ variant = "headless" /\ ~exited /\ pc = "capture"
    /\ frame_count < frame_limit
    /\ \/ /\ cyc_capture' = "failed"
          /\ pc' = "infer"
          /\ UNCHANGED <<frame_count, frame>>
       \/ /\ cyc_capture' = "ok"
          /\ frame_count' = frame_count + 1
          /\ frame' = frame_count'
          /\ pc' = "infer"
    /\ UNCHANGED <<config, display, api, releases, running, paused, exited, now, frame_queue, status,
                   last_detection_time, last_logged_items, servo_angle, events,
                   filtered, best_detection, current_time, result_time_ms,
                   waited, consecutive_clear_checks,
                   cyc_infer, cyc_guard, cyc_act, cyc_log, cyc_calls, last_admit>>

\* process_frame: frame = capture_frame(); None -> return; frame_count += 1
HLCapture ==
    /\ variant = "headless" /\ ~exited /\ pc = "capture"
    /\ frame_count < frame_limit
    /\ \/ \* capture failed: print, return
          /\ cyc_capture' = "failed"
          /\ pc' = "done"
          /\ UNCHANGED <<frame_count, frame>>
       \/ /\ cyc_capture' = "ok"
          /\ frame_count' = frame_count + 1
          /\ frame' = frame_count'
          /\ pc' = "infer"
    /\ UNCHANGED <<config, display, api, releases, running, paused, exited, now, frame_queue, status,
                   last_detection_time, last_logged_items, servo_angle, events,
                   filtered, best_detection, current_time, result_time_ms,
                   waited, consecutive_clear_checks,
                   cyc_infer, cyc_guard, cyc_act, cyc_log, cyc_calls, last_admit>>

\* run_cloud_inference raised: the except Exception of process_frame
HLInferFail(kind) ==
    /\ cyc_infer' = kind
    /\ pc' = "done"
    /\ UNCHANGED <<status, filtered, best_detection>>

\* filtered; len(filtered) == 0 -> return; best_detection = max(...)
HLInferOk(res) ==
    /\ cyc_infer' = "ok"
    /\ filtered' = Filter(res, confidence_threshold)
    /\ UNCHANGED status
    /\ IF Len(filtered') = 0
       THEN pc' = "done" /\ UNCHANGED best_detection
       ELSE pc' = "log" /\ best_detection' = BestDetection(filtered')

HLInfer ==
    /\ variant = "headless" /\ ~exited /\ pc = "infer"
    /\ cyc_calls' = cyc_calls + 1
    /\ \/ \E kind \in Failures : HLInferFail(kind)
       \/ \E res \in AnswersOf(service) : HLInferOk(res)
    /\ UNCHANGED <<config, display, api, releases, running, paused, exited, now, frame_queue, frame_count,
                   last_detection_time, last_logged_items, servo_angle,
                   events, frame, current_time, result_time_ms,
                   waited, consecutive_clear_checks, cyc_guard, cyc_act, cyc_log, last_admit, cyc_capture>>

\* if enable_logging and logger: try: log_disposal / except: print; then move_servo
HLLog ==
    /\ variant = "headless" /\ ~exited /\ pc = "log"
    /\ IF enable_logging
       THEN \/ /\ events' = Append(events, LoggedEvent(best_detection))
               /\ cyc_log' = "ok"
            \/ /\ cyc_log' = "failed"
               /\ UNCHANGED events
       ELSE UNCHANGED <<events, cyc_log>>
    /\ pc' = IF enable_servo THEN "open" ELSE "done"
    /\ UNCHANGED <<config, display, api, releases, running, paused, exited, now, frame_queue, frame_count,
                   status, last_detection_time, last_logged_items, servo_angle,
                   locals, cyc_infer, cyc_guard, cyc_act, cyc_calls, last_admit, cyc_capture>>

\* actual_angle of move_servo
HLActualAngle(recyclable) == IF recyclable THEN HLRecycleAngle ELSE HLTrashAngle

\* move_servo: servo.angle = actual_angle
HLServoOpen ==
    /\ variant = "headless" /\ ~exited /\ pc = "open"
    /\ \/ /\ servo_angle' = HLActualAngle(is_recyclable(best_detection.label))
          /\ cyc_act' = "started"
          /\ pc' = "wait"
       \/ /\ cyc_act' = "failed"
          /\ pc' = "done"
          /\ UNCHANGED servo_angle
    /\ UNCHANGED <<config, display, api, releases, running, paused, exited, now, frame_queue, frame_count,
                   status, last_detection_time, last_logged_items, events,
                   locals, cyc_infer, cyc_guard, cyc_log, cyc_calls, last_admit, cyc_capture>>

\* time.sleep(1)
HLServoWait ==
    /\ variant = "headless" /\ ~exited /\ pc = "wait"
    /\ pc' = "close"
    /\ UNCHANGED <<config, display, api, releases, running, paused, exited, now, frame_queue, frame_count,
                   status, last_detection_time, last_logged_items, servo_angle,
                   events, locals, cyc, last_admit>>

\* servo.angle = 180 (home)
HLServoClose ==
    /\ variant = "headless" /\ ~exited /\ pc = "close"
    /\ \/ /\ servo_angle' = HLHomeAngle
          /\ cyc_act' = "ok"
       \/ /\ cyc_act' = "failed"
          /\ UNCHANGED servo_angle
    /\ pc' = "done"
    /\ UNCHANGED <<config, display, api, releases, running, paused, exited, now, frame_queue, frame_count,
                   status, last_detection_time, last_logged_items, events,
                   locals, cyc_infer, cyc_guard, cyc_log, cyc_calls, last_admit, cyc_capture>>

\* process_frame returned; time.sleep(2); `while self.running`
HLLoop ==
    /\ variant = "headless" /\ ~exited /\ pc = "done"
    /\ pc' = "capture"
    /\ CycleReset
    /\ UNCHANGED <<config, display, api, releases, running, paused, exited, now, frame_queue, frame_count,
                   status, last_detection_time, last_logged_items, servo_angle,
                   events, last_admit>>

\* Ctrl+C: KeyboardInterrupt leaves whatever statement is running (it is not an
\* Exception, so no handler of process_frame or move_servo catches it);
\* finally: camera.release(), summary, the process ends
HLInterrupt ==
    /\ variant = "headless" /\ ~exited
    /\ releases' = releases + 1
    /\ ProcessEnds

HLNext ==
    \/ HLCapture
    \/ HLInfer
    \/ HLLog
    \/ HLServoOpen
    \/ HLServoWait
    \/ HLServoClose
    \/ HLLoop
    \/ HLInterrupt

(* ============================ data API server ========================== *)

\* values of the query parameter `limit`
RecentLimits == {-1, 0, 1, 2, 500, 501}

\* if limit > 500: limit = 500
EndpointLimit(limit) == IF limit > RecentLimitMax THEN RecentLimitMax ELSE limit

\* ORDER BY timestamp DESC on rows inserted with increasing time.time()
NewestFirst(rows) == [i \in 1..Len(rows) |-> rows[Len(rows) + 1 - i]]

\* LIMIT ? of SQLite: a negative value means no upper bound
SqlLimit(rows, n) == IF n < 0 THEN rows ELSE SubSeq(rows, 1, Min(n, Len(rows)))

\* DataLogger.get_recent_events
get_recent_events(rows, limit) == SqlLimit(NewestFirst(rows), limit)

\* GET /api/recent?limit=...
ApiRecent ==
    /\ api.call # "stats_total"
    /\ \E limit \in RecentLimits :
          api' = [call |-> "recent", limit |-> limit, total |-> 0,
                  result |-> get_recent_events(events, EndpointLimit(limit))]
    /\ UNCHANGED pipeline

\* SELECT COUNT(*) ... WHERE is_recyclable = 1
CountRecyclable(rows) == Len(SelectSeq(rows, LAMBDA e : e.is_recyclable))

\* the dict get_stats returns (the rate in percent)
StatsResult(total, recyclable) ==
    [total_disposals |-> total,
     recyclable_count |-> recyclable,
     trash_count |-> total - recyclable,
     recycling_rate |-> IF total > 0 THEN (100 * recyclable) \div total ELSE 0]

\* get_stats, first statement: SELECT COUNT(*) FROM disposal_events
ApiStatsTotal ==
    /\ api.call # "stats_total"
    /\ api' = [call |-> "stats_total", limit |-> 0, total |-> Len(events),
               result |-> <<>>]
    /\ UNCHANGED pipeline

\* get_stats, second statement (its own read transaction) and the result
ApiStatsRecyclable ==
    /\ api.call = "stats_total"
    /\ api' = [call |-> "stats", limit |-> 0, total |-> 0,
               result |-> StatsResult(api.total, CountRecyclable(events))]
    /\ UNCHANGED pipeline

Next ==
    \/ Tick
    \/ WebNext
    \/ UINext
    \/ HLNext

Spec == Init /\ [][Next]_vars

\* the steps of the inference worker (for headless, of the only thread)
WorkerStep ==
    \/ WebGet \/ WebLoop \/ WebInfer \/ WebGuard
    \/ WebServoOpen \/ WebServoWait \/ WebServoClose \/ WebLog
    \/ UIHead \/ UIDrain \/ UIInfer \/ UIDedup \/ UILog
    \/ UIServoReset \/ UIServoOpen \/ UIServoCheck \/ UIServoClose
    \/ UIServoEmergency \/ UIPublish \/ UILoop
    \/ HLCapture \/ HLInfer \/ HLLog \/ HLServoOpen \/ HLServoWait \/ HLServoClose \/ HLLoop

\* the worker thread is scheduled, and each of its calls and sleeps returns;
\* the service finds at most one thing per frame
FairInit == InitWith(Service("single"), Thresholds, MaxFrames)

FairSpec == FairInit /\ [][Next]_vars /\ WF_vars(WorkerStep)

\* runs of the two variants that have a frame queue, with one frame more than
\* in Spec (so that a frame is offered to a full queue while the worker is
\* busy with an earlier one) and a service that finds nothing or one bottle
QueueInit ==
    /\ InitWith(Service("queue"), Thresholds, MaxFrames + 1)
    /\ variant \in {"web", "ui"}

QueueNext ==
    \/ Tick
    \/ WebNext
    \/ UINext

QueueSpec == QueueInit /\ [][QueueNext]_vars

\* runs of the ui variant together with the display code that reads the
\* published status
StatusInit ==
    /\ Init
    /\ variant = "ui"

StatusNext ==
    \/ Tick
    \/ UINext
    \/ UIDrawStats
    \/ UIDrawBoxes

StatusSpec == StatusInit /\ [][StatusNext]_vars

\* runs in which the service answers with two detections, one of confidence
\* 0.9 and one of 0.4
ScenarioInit == InitWith(Service("scenario"), Thresholds, MaxFrames)

ScenarioSpec == ScenarioInit /\ [][Next]_vars

\* runs up to the filtering of the first answer, for every answer of up to
\* MaxFilterLen detections and thresholds below, between, at and above the
\* confidences
FilterInputs == SeqsUpTo(Detection, MaxFilterLen)

FilterThresholds == {40, 50, 90, 95}

FilterInit == \E D \in FilterInputs : InitWith(OneAnswer(D), FilterThresholds, 1)

FilterNext ==
    \/ WebGetFrame
    \/ WebGet
    \/ WebInfer
    \/ UICapture
    \/ UIHead
    \/ UIDrain
    \/ UIInfer
    \/ HLCapture
    \/ HLInfer

FilterSpec == FilterInit /\ [][FilterNext]_vars

\* whole runs on one frame, for every answer of up to MaxFilterLen detections
SelectSpec == FilterInit /\ [][Next]_vars

\* runs on two frames in which the service answers with any label
LookupInit == InitWith(Service("lookup"), Thresholds, 2)

LookupSpec == LookupInit /\ [][Next]_vars

\* runs of the headless pipeline with the data API server on the same database
ApiInit ==
    /\ InitWith(Service("single"), Thresholds, MaxFrames)
    /\ variant = "headless"

ApiNext ==
    \/ HLNext
    \/ ApiRecent
    \/ ApiStatsTotal
    \/ ApiStatsRecyclable

ApiSpec == ApiInit /\ [][ApiNext]_vars

\* labels of the items logged before a run of DedupSpec starts
PriorLabels == <<"Bottle", "cup", "CAN", "banana", "Shoe">>

\* the dedup keys of ten items logged in the two 5-second buckets before
\* StartTime: as many as the set is allowed to keep
PriorItems == {ItemKey(PriorLabels[i], t) : i \in 1..Len(PriorLabels), t \in {0, UIBucketSeconds}}

\* the rows of these ten items
PriorRows ==
    [i \in 1..(2 * Len(PriorLabels)) |->
        LoggedEvent([label |-> PriorLabels[((i - 1) % Len(PriorLabels)) + 1],
                     confidence |-> 90])]

\* runs of the ui variant on two frames that start with a full dedup set
DedupInit ==
    /\ InitFrom(Service("queue"), Thresholds, 2, PriorItems, PriorRows)
    /\ variant = "ui"

DedupNext ==
    \/ Tick
    \/ UINext

DedupSpec == DedupInit /\ [][DedupNext]_vars

(* ============================== properties ============================= *)

\* the open command has been issued and the close has not yet completed
InSequence == pc \in {"wait", "check", "close"}

\* program positions inside move_servo_for_item / move_servo
ServoPcs == {"reset", "open", "wait", "check", "close", "emergency"}

\* the angle the variant treats as rest (center, or home for headless)
NeutralAngle == IF variant = "headless" THEN HLHomeAngle
                ELSE IF variant = "web" THEN WebCenterAngle ELSE UICenterAngle

\* some step of the current cycle failed
CycleFailed ==
    \/ cyc_capture = "failed"
    \/ cyc_infer \in Failures
    \/ cyc_act = "failed"
    \/ cyc_log = "failed"

\* C1: while an actuation sequence is in progress the only position command
\* that takes effect is the worker's own next step of that sequence (a manual
\* servo command would have to be rejected)
C1_SingleFlight == [][(InSequence /\ servo_angle' # servo_angle) => pc' # pc]_vars

\* C2: an event is recorded only after the actuation of that cycle has been
\* attempted and has completed successfully
C2_ActuateThenRecord == [][Len(events') > Len(events) => cyc_act = "ok"]_vars

\* C3: events and completed actuator cycles correspond one to one: a cycle of
\* the worker has recorded an event exactly when it has completed an actuator
\* sequence (so the two counts agree at every cycle boundary)
C3_EventsMatchCycles == pc = "done" => (cyc_log = "ok" <=> cyc_act = "ok")

\* C4: the admission decision is exactly now - last_admitted >= cooldown, and
\* every cycle that actuates or records has passed that check
C4_GuardPolicy ==
    /\ []((cyc_act # "none" \/ cyc_log # "none") => cyc_guard = "admit")
    /\ [][(cyc_guard = "none" /\ cyc_guard' # "none")
            => (cyc_guard' = "admit" <=> now - last_admit >= cooldown_seconds)]_vars

\* C5: in the web variant no admission check passes within the cooldown of the
\* previous admission, whatever happened in the rest of that cycle
C5_NoStaleAdmission ==
    [][(variant = "web" /\ cyc_guard # "admit" /\ cyc_guard' = "admit")
        => now - last_admit >= cooldown_seconds]_vars

\* C6: a sequence in which a position command failed ends with the actuator
\* at the neutral angle
C6_FailSafeCenter ==
    [][(pc \in ServoPcs /\ pc' \notin ServoPcs /\ cyc_act' = "failed")
        => servo_angle' = NeutralAngle]_vars

\* C7: the process never exits with the actuator away from the neutral angle
C7_ShutdownCenters == exited => servo_angle \in {NoAngle, NeutralAngle}

\* C8: a failed classification ends the cycle at once: one call, no guard
\* check, no actuation, no event, the published status untouched, and the
\* worker's next step is back to the top of its loop (unless the process is
\* shut down first)
C8_FailedClassificationSkipsCycle ==
    /\ [](cyc_infer \in Failures =>
            /\ pc = "done"
            /\ cyc_calls = 1
            /\ cyc_guard = "none" /\ cyc_act = "none" /\ cyc_log = "none")
    /\ [][(cyc_infer \notin Failures /\ cyc_infer' \in Failures) =>
            /\ status' = status
            /\ events' = events
            /\ servo_angle' = servo_angle]_vars
    /\ [][(cyc_infer \in Failures /\ pc' # pc /\ ~exited') =>
            pc' = StartPc(variant)]_vars

\* a classification timed out while a non-empty status of an earlier cycle and
\* an event of an earlier cycle were there to lose
C8_Witness ==
    /\ cyc_infer = "Timeout"
    /\ latest_detections # <<>>
    /\ Len(events) > 0

\* C9: when log_disposal fails in a cycle of a servo-enabled pipeline, the
\* actuation of that cycle has still run by the end of the cycle
C9_PersistenceFailureKeepsActuation ==
    (pc = "done" /\ cyc_log = "failed" /\ enable_servo) => cyc_act # "none"


\* C10: a failure in a cycle never ends the worker loop (only a shutdown does),
\* and after it the worker gets back to the top of its loop, ready for the
\* next frame
C10_LoopsSurviveFailures ==
    /\ []((running /\ ~exited) => pc # "exit")
    /\ [](CycleFailed => pc # "exit")
    /\ (CycleFailed ~> (pc = StartPc(variant) \/ exited))

\* a cycle in which the actuator faulted and the insert failed has ended
C10_Witness == pc = "done" /\ cyc_act = "failed" /\ cyc_log = "failed"

(* ------------------------------ the queue ------------------------------ *)

\* C11: the frame queue never holds more than its capacity
C11_QueueBounded == Len(frame_queue) <= QueueMaxsize

\* the queue is full and a later frame has been offered to it and passed over
C11_Witness ==
    /\ variant = "web"
    /\ Len(frame_queue) = QueueMaxsize
    /\ frame_count >= frame_queue[QueueMaxsize] + FrameSkip

\* the capture loop offers the frame it has just counted as number n to the
\* queue: every 3rd frame in get_frame, every frame while not paused in run()
FrameOffered(n) ==
    \/ variant = "web" /\ n % FrameSkip = 0
    \/ variant = "ui" /\ ~paused

\* C12: a frame offered to a full queue takes the place of the oldest queued
\* frame; the new frame is never the one that is discarded
C12_DropOldest ==
    [][(/\ frame_count' = frame_count + 1
        /\ FrameOffered(frame_count')
        /\ Len(frame_queue) = QueueMaxsize)
        => frame_queue' = Append(Tail(frame_queue), frame_count')]_vars

\* number of the newest frame get_frame has offered to the queue
WebLastOffered == (frame_count \div FrameSkip) * FrameSkip

\* C13: the frame the worker takes to classify is the most recently offered
\* one: no newer frame stays behind it in the queue and, in the web variant
\* (where the offered frames are known from the frame counter), it is the
\* newest frame offered so far
C13_NewestProcessed ==
    [][(pc # "infer" /\ pc' = "infer" /\ variant \in {"web", "ui"})
        => /\ \A i \in 1..Len(frame_queue') : frame_queue'[i] < frame'
           /\ variant = "web" => frame' = WebLastOffered]_vars

\* the capture loop of a variant with a queue is running (and the model has
\* frames left for it)
CaptureRuns ==
    \/ variant = "web" /\ ~exited /\ frame_count < frame_limit
    \/ variant = "ui" /\ ~exited /\ running /\ frame_count < frame_limit

\* one pass of the capture loop that got a frame from the camera
CapturePass == (WebGetFrame \/ UICapture) /\ frame_count' = frame_count + 1

\* C14: the capture loop never waits for the worker: a pass that captures and
\* offers a frame can complete in every state, whatever the worker is doing
\* and however full the queue is, and it completes without a step of the worker
C14_CaptureNeverBlocked ==
    /\ [](CaptureRuns => ENABLED CapturePass)
    /\ [][(variant \in {"web", "ui"} /\ frame_count' = frame_count + 1) => pc' = pc]_vars

\* a frame was captured past a full queue while the worker was inside the
\* classification call or the actuator wait
C14_Witness ==
    /\ variant \in {"web", "ui"}
    /\ Len(frame_queue) = QueueMaxsize
    /\ pc \in {"infer", "wait", "check"}
    /\ frame_count > frame_queue[QueueMaxsize]
    /\ variant = "web" => frame_count >= frame_queue[QueueMaxsize] + FrameSkip

(* ------------------------------ the status ----------------------------- *)

\* C15: the status is published in one step per cycle and read as one
\* snapshot: what a reader puts on one frame (source, inference time and
\* detections) is the status of a single cycle, and at the end of a cycle
\* whose classification succeeded the status is that cycle's result
C15_StatusSnapshot ==
    /\ [][status' # status =>
            (exited' \/ (cyc_infer' = "ok" /\ pc' # pc))]_vars
    /\ [][(draw_pc = "boxes" /\ draw_pc' = "idle" /\ ~exited') =>
            <<drawn_source, drawn_time_ms>> =
                <<inference_source, inference_time_ms>>]_vars
    /\ []((pc = "done" /\ cyc_infer = "ok" /\ variant = "ui") =>
            /\ latest_detections = filtered
            /\ inference_source = "cloud"
            /\ inference_time_ms = result_time_ms)

\* a step of the code that serves the display: the MJPEG stream and the servo
\* endpoint of the web viewer, the mouse callback and the drawing of the ui
PresentationStep ==
    \/ WebGetFrame
    \/ WebServoControl
    \/ UITogglePause
    \/ UIDrawStats
    \/ UIDrawBoxes

\* C16: the presentation code only reads: none of its steps enqueues a frame,
\* changes the state of the pipeline or commands the actuator
C16_PresentationReadsOnly ==
    [][PresentationStep =>
        UNCHANGED <<frame_queue, paused, running, confidence_threshold, status,
                    last_detection_time, last_logged_items, servo_angle, events>>]_vars

(* ----------------------------- the sequence --------------------------- *)

\* the bin angle the variant opens to for the item of this cycle
OpenAngle ==
    IF variant = "web" THEN WebTargetAngle(is_recyclable(best_detection.label))
    ELSE IF variant = "ui" THEN UIActualAngle(is_recyclable(best_detection.label))
    ELSE HLActualAngle(is_recyclable(best_detection.label))

\* the wait between the open and the close command
AwaitingClear == pc \in {"wait", "check"}

LabelSeen ==
    \E i \in 1..Len(latest_detections) :
        Lower(latest_detections[i].label) = Lower(best_detection.label)

\* C18: the wait for the item to clear always ends: each check adds 0.3 s to
\* the time waited and counts the consecutive checks without the label (back
\* to 0 when it is seen); the wait ends at the 2nd consecutive clear check or
\* once 5.0 s have been waited, and what follows in both cases is the close
\* command
C18_WaitTerminates ==
    /\ [](pc = "check" =>
            /\ waited < max_wait_time + check_interval
            /\ consecutive_clear_checks < required_clear_checks)
    /\ [][(/\ pc = "check" /\ waited < max_wait_time /\ ~exited'
            /\ <<pc, waited, consecutive_clear_checks>>' #
                    <<pc, waited, consecutive_clear_checks>>) =>
            /\ waited' = waited + check_interval
            /\ consecutive_clear_checks' =
                    IF LabelSeen THEN 0 ELSE consecutive_clear_checks + 1
            /\ pc' = IF consecutive_clear_checks' >= required_clear_checks
                     THEN "close" ELSE "check"]_vars
    /\ [][(pc = "check" /\ ~(waited < max_wait_time) /\ pc' # pc /\ ~exited') =>
            pc' = "close"]_vars
    /\ [][(pc = "close" /\ pc' # pc /\ ~exited') =>
            cyc_act' \in {"ok", "failed"}]_vars
    /\ (pc = "check" ~> (pc = "close" \/ exited))

\* the label stayed among the latest detections: the wait ran into its
\* maximum and the close command is next
C18_Witness ==
    /\ variant = "ui" /\ pc = "close"
    /\ ~(waited < max_wait_time)
    /\ consecutive_clear_checks = 0
    /\ LabelSeen

(* ------------------------------ shutdown ------------------------------- *)

\* C19: when the process has ended, the camera has been released exactly once
C19_ReleasedOnce == exited => releases = 1

(* ------------------------------ the filter ----------------------------- *)

\* the answer of the service in a run with a single answer
Answer == service.answer

\* where the worker keeps the filtered detections
FilterOutput == IF variant = "web" THEN latest_detections ELSE filtered

\* the positions of D whose confidence is at least t
Kept(D, t) == {j \in 1..Len(D) : D[j].confidence >= t}

\* the i-th smallest of a set of positions
Nth(S, i) == CHOOSE j \in S : Cardinality({k \in S : k < j}) = i - 1

\* out consists of exactly the detections of D at the kept positions, in the
\* order of D
IsFiltered(out, D, t) ==
    /\ Len(out) = Cardinality(Kept(D, t))
    /\ \A i \in 1..Len(out) : out[i] = D[Nth(Kept(D, t), i)]

\* C20: what the worker keeps of an answer D is exactly the detections of D
\* with confidence >= threshold (equality included), in their order in D
C20_FilterExact ==
    [][(cyc_infer # "ok" /\ cyc_infer' = "ok") =>
        IsFiltered(FilterOutput', Answer, confidence_threshold)]_vars

\* an answer of three detections was filtered at a threshold equal to the
\* confidence of two of them, with the dropped one between the two kept
C20_Witness ==
    /\ cyc_infer = "ok"
    /\ Len(Answer) = 3 /\ Answer[2].confidence < confidence_threshold
    /\ Len(FilterOutput) = 2
    /\ FilterOutput[1].confidence = confidence_threshold
    /\ FilterOutput[1].label # FilterOutput[2].label

(* ------------------------------ selection ------------------------------ *)

\* C21: the best detection of a cycle is an item of the filtered sequence with
\* the maximum confidence, and of several with that confidence the one at the
\* earliest position; a cycle whose filtered sequence is empty has no
\* candidate, and no step of its worker checks the guard, commands the
\* actuator or records an event
C21_SelectBest ==
    /\ [][(best_detection' # best_detection /\ ~exited' /\ best_detection' # NoDetection) =>
            \E i \in 1..Len(FilterOutput') :
                /\ best_detection' = FilterOutput'[i]
                /\ \A j \in 1..Len(FilterOutput') :
                        FilterOutput'[j].confidence <= FilterOutput'[i].confidence
                /\ \A j \in 1..(i - 1) :
                        /\ FilterOutput'[j].confidence < FilterOutput'[i].confidence
                        /\ FilterOutput'[j] # best_detection']_vars
    /\ []((cyc_infer = "ok" /\ FilterOutput = <<>>) =>
            /\ best_detection = NoDetection
            /\ cyc_guard = "none" /\ cyc_act = "none" /\ cyc_log = "none")
    /\ [][(cyc_infer = "ok" /\ FilterOutput = <<>> /\ pc' # pc /\ ~exited') =>
            events' = events /\ servo_angle' = servo_angle]_vars

\* the best detection was taken from a sequence whose first two items share
\* the maximum confidence and differ in their labels
C21_Witness ==
    /\ Len(FilterOutput) = 3
    /\ FilterOutput[1].confidence = FilterOutput[2].confidence
    /\ FilterOutput[3].confidence = FilterOutput[2].confidence
    /\ FilterOutput[1].label # FilterOutput[2].label
    /\ best_detection = FilterOutput[1]
    /\ cyc_guard = "admit"

(* ------------------------------- capture ------------------------------- *)

\* C22: a failed capture is an empty frame and nothing else: the pass that got
\* it enqueues nothing (the queue only grows in a pass that counted a frame),
\* the headless cycle that got it ends at once with no classification call, no
\* actuation and no event, and its next step is the next capture
C22_EmptyFrameSkipsCycle ==
    /\ [][Len(frame_queue') > Len(frame_queue) =>
            /\ frame_count' = frame_count + 1
            /\ frame_queue' = Append(frame_queue, frame_count')]_vars
    /\ [](\A i \in 1..Len(frame_queue) : frame_queue[i] # NoFrame)
    /\ [](pc = "infer" => frame # NoFrame)
    /\ [][(cyc_capture # "failed" /\ cyc_capture' = "failed") =>
            /\ pc' = "done"
            /\ UNCHANGED <<frame_count, frame_queue, status, servo_angle, events,
                           last_detection_time, last_logged_items>>]_vars
    /\ [](cyc_capture = "failed" =>
            /\ pc = "done" /\ cyc_calls = 0 /\ cyc_infer = "none"
            /\ cyc_guard = "none" /\ cyc_act = "none" /\ cyc_log = "none")
    /\ [][(cyc_capture = "failed" /\ pc' # pc /\ ~exited') => pc' = "capture"]_vars
    /\ (cyc_capture = "failed" ~> (pc = "capture" \/ exited))

\* a capture failed in a cycle that follows one which recorded an event
C22_Witness ==
    /\ variant = "headless"
    /\ cyc_capture = "failed"
    /\ frame_count > 0 /\ Len(events) > 0

(* ------------------------------ the lookup ----------------------------- *)

\* the values of material_category
MaterialCategories ==
    {"metal_aluminum", "metal", "plastic_bottle", "plastic_bag", "plastic_cup",
     "plastic", "glass_bottle", "glass_jar", "glass", "cardboard",
     "paper_newspaper", "paper_cup", "paper", "cup_mixed", "styrofoam",
     "food_waste", "other"}

\* the label contains none of the words the categoriser knows
UnknownLabel(l) == Lower(l) \notin DOMAIN WordsInLabel

C24_RecentBounded ==
    [][(api' # api /\ api'.call = "recent") =>
        /\ Len(api'.result) <= Min(api'.limit, RecentLimitMax)
                \/ Len(api'.result) = 0
        /\ \A i \in 1..Len(api'.result) :
                api'.result[i] = events[Len(events) + 1 - i]]_vars

\* C25: every result of get_stats has non-negative counts that add up to the
\* total, and a rate of 0 when it counted no events, also when events are
\* written while it is read
C25_StatsConsistent ==
    api.call = "stats" =>
        /\ api.result.recyclable_count >= 0
        /\ api.result.trash_count >= 0
        /\ api.result.recyclable_count + api.result.trash_count
                = api.result.total_disposals
        /\ api.result.total_disposals = 0 => api.result.recycling_rate = 0

(* ------------------------------ ui dedup ------------------------------- *)

\* C26: in the ui variant two admitted cycles for the same label are at least
\* 5 seconds apart
C26_UILabelCooldown ==
    [][(/\ variant = "ui"
        /\ cyc_guard # "admit" /\ cyc_guard' = "admit"
        /\ Len(events) > 0
        /\ events[Len(events)].label = best_detection'.label)
        => now - last_admit >= UIBucketSeconds]_vars

\* C27: at the end of every worker cycle the dedup set holds at most 10 keys,
\* and the key added in a cycle is still in the set after the eviction of that
\* cycle
C27_DedupSetBounded ==
    /\ []((variant = "ui" /\ pc = "done") =>
            Cardinality(last_logged_items) <= UIMaxLoggedItems)
    /\ [][(variant = "ui" /\ cyc_log # "ok" /\ cyc_log' = "ok") =>
            ItemKey(best_detection.label, current_time) \in last_logged_items']_vars

(* --------------------------- the wait of the ui ------------------------ *)

C29_PausedIsQuiet ==
    [][(variant = "ui" /\ paused /\ paused') =>
        /\ frame_queue' = frame_queue
        /\ ~(pc # "infer" /\ pc' = "infer")]_vars

(* ------------------------------ the angles ----------------------------- *)

\* the bin angle the variant opens to for a category
AngleFor(recyclable) ==
    IF variant = "web" THEN WebTargetAngle(recyclable)
    ELSE IF variant = "ui" THEN UIActualAngle(recyclable)
    ELSE HLActualAngle(recyclable)

\* C30: the open command of every trigger, in every variant and for both
\* categories, goes to an angle other than the neutral one, and the two
\* categories have different angles
C30_OpenLeavesNeutral ==
    [][(cyc_act # "started" /\ cyc_act' = "started") =>
        /\ servo_angle' = AngleFor(is_recyclable(best_detection.label))
        /\ servo_angle' # NeutralAngle
        /\ AngleFor(TRUE) # AngleFor(FALSE)]_vars

====
